---- MODULE Spec2Model ----
(***************************************************************************)
(* A model of webApi.go: the expression validator and evaluator            *)
(* (validateExpression, evaluateExpression) and the three HTTP handlers    *)
(* that share the process-wide map evaluationErrors.                       *)
(*                                                                         *)
(* Strings of the program are sequences of one-character strings, so that  *)
(* strings.ToLower, strings.Fields, strings.HasSuffix and strconv.Atoi are *)
(* computed character by character as the library computes them.          *)
(* float64 values are exact fractions [n, d] in lowest terms with d > 0;   *)
(* d = 0 stands for the IEEE values +Inf (n = 1), -Inf (n = -1) and NaN    *)
(* (n = 0).  Rounding of quotients that are not binary fractions and the   *)
(* sign of zero are not represented.  int is 64 bits wide; the range check *)
(* of strconv.Atoi is made on the digits, and the literals that pass it    *)
(* here are small.                                                         *)
(***************************************************************************)
EXTENDS Integers, Sequences, FiniteSets, TLC

VARIABLES
    expression,        \* core: the argument handed to the two core functions
    vres,              \* core: what validateExpression(expression) returned, or NoResult
    eres,              \* core: what evaluateExpression(expression) returned, or NoResult
    evaluationErrors,  \* the map MessageType -> MessageInfo (webApi.go:72)
    response,          \* the answer written by the handler that ran last
    submitted,         \* history: the failing requests made so far, per (text, endpoint)
    nreq,              \* history: number of requests handled or started so far
    gor,               \* concurrent service: per goroutine, its position and locals
    crashed            \* concurrent service: the runtime stopped the process (fatal error)

vars == <<expression, vres, eres, evaluationErrors, response, submitted, nreq, gor, crashed>>

-----------------------------------------------------------------------------
(* Program constants (webApi.go:52-70) *)

EvaluateEndpoint == "/evaluate"
ValidateEndpoint == "/validate"

KeywordPlus       == <<"p","l","u","s">>
KeywordMinus      == <<"m","i","n","u","s">>
KeywordMultiplied == <<"m","u","l","t","i","p","l","i","e","d">>
KeywordDivided    == <<"d","i","v","i","d","e","d">>
KeywordBy         == <<"b","y">>
KeywordWhat       == <<"w","h","a","t">>
KeywordIs         == <<"i","s">>

InvalidJSONError          == "Invalid JSON data"
InvalidExpressionError    == "Invalid expression"
UnsupportedOperationError == "Unsupported operation"
NonMathQuestionError      == "Non-math question"

StatusOK         == 200
StatusBadRequest == 400

-----------------------------------------------------------------------------
(* Library functions of package strings and strconv, on character sequences *)

UpperLetters == <<"A","B","C","D","E","F","G","H","I","J","K","L","M",
                  "N","O","P","Q","R","S","T","U","V","W","X","Y","Z">>
LowerLetters == <<"a","b","c","d","e","f","g","h","i","j","k","l","m",
                  "n","o","p","q","r","s","t","u","v","w","x","y","z">>
Digits       == <<"0","1","2","3","4","5","6","7","8","9">>

\* unicode.IsSpace, restricted to the ASCII range
IsSpace(c) == c \in {" ", "\t", "\n", "\r", "\f"}

\* the value of each decimal digit, as a table
ValueOf == [c \in {Digits[k] : k \in 1..10} |-> (CHOOSE k \in 1..10 : Digits[k] = c) - 1]

IsDigit(c) == c \in DOMAIN ValueOf

DigitValue(c) == ValueOf[c]

\* unicode.ToLower as a table of the letters it changes, here those of the ASCII range
\* (a letter that is lower case already, ASCII or not, is not in the table)
LowerOf ==
    [c \in {UpperLetters[k] : k \in 1..26} |->
        LowerLetters[CHOOSE k \in 1..26 : UpperLetters[k] = c]]

ToLowerChar(c) == IF c \in DOMAIN LowerOf THEN LowerOf[c] ELSE c

\* strings.ToLower
ToLower(s) == [k \in 1..Len(s) |-> ToLowerChar(s[k])]

\* strings.HasSuffix(s, "?")
HasSuffixQ(s) == Len(s) >= 1 /\ s[Len(s)] = "?"

RECURSIVE FieldsFrom(_, _, _, _)
FieldsFrom(s, k, cur, acc) ==
    IF k > Len(s)
    THEN IF cur = <<>> THEN acc ELSE Append(acc, cur)
    ELSE IF IsSpace(s[k])
         THEN FieldsFrom(s, k + 1, <<>>, IF cur = <<>> THEN acc ELSE Append(acc, cur))
         ELSE FieldsFrom(s, k + 1, Append(cur, s[k]), acc)

\* strings.Fields: the maximal runs of non-space characters, in order
Fields(s) == FieldsFrom(s, 1, <<>>, <<>>)

RECURSIVE DigitsValue(_, _, _)
DigitsValue(s, k, n) ==
    IF k > Len(s) THEN n ELSE DigitsValue(s, k + 1, 10 * n + DigitValue(s[k]))

\* the decimal digits of 1<<63 - 1, the largest int (int is 64 bits wide)
MaxIntDigits == <<"9","2","2","3","3","7","2","0","3","6","8","5","4","7","7","5","8","0","7">>
\* the decimal digits of 1<<63, the magnitude of the smallest int
MinIntDigits == <<"9","2","2","3","3","7","2","0","3","6","8","5","4","7","7","5","8","0","8">>

RECURSIVE StripZeros(_)
StripZeros(s) == IF s # <<>> /\ s[1] = "0" THEN StripZeros(Tail(s)) ELSE s

\* a <= b for digit strings of the same length
RECURSIVE DigitsLeq(_, _)
DigitsLeq(a, b) ==
    IF a = <<>> THEN TRUE
    ELSE IF a[1] # b[1] THEN DigitValue(a[1]) < DigitValue(b[1])
    ELSE DigitsLeq(Tail(a), Tail(b))

\* the magnitude written by the digits fits an int of the given sign
InIntRange(negative, digits) ==
    LET m == StripZeros(digits)
    IN  \/ Len(m) < Len(MaxIntDigits)
        \/ Len(m) = Len(MaxIntDigits)
           /\ DigitsLeq(m, IF negative THEN MinIntDigits ELSE MaxIntDigits)

\* stands for the clipped value strconv.Atoi returns with its range error
ClippedInt == 2147483647

\* strconv.Atoi: an optional sign followed by one or more decimal digits; a syntax
\* error gives 0, a value that does not fit an int gives the range error
Atoi(s) ==
    LET signed   == Len(s) >= 1 /\ s[1] \in {"+", "-"}
        negative == signed /\ s[1] = "-"
        body     == IF signed THEN Tail(s) ELSE s
        ok       == Len(body) >= 1 /\ \A k \in 1..Len(body) : IsDigit(body[k])
    IN  IF ~ok THEN [num |-> 0, err |-> TRUE]
        ELSE IF ~InIntRange(negative, body)
             THEN [num |-> IF negative THEN -ClippedInt ELSE ClippedInt, err |-> TRUE]
        ELSE [num |-> (IF negative THEN -1 ELSE 1) * DigitsValue(body, 1, 0),
              err |-> FALSE]

-----------------------------------------------------------------------------
(* float64 arithmetic on fractions *)

Abs(x) == IF x < 0 THEN -x ELSE x

RECURSIVE Gcd(_, _)
Gcd(a, b) == IF b = 0 THEN a ELSE Gcd(b, a % b)

PosInf == [n |-> 1, d |-> 0]
NegInf == [n |-> -1, d |-> 0]
NaN    == [n |-> 0, d |-> 0]

IsFinite(x) == x.d # 0

Norm(n, d) ==
    LET g == Gcd(Abs(n), Abs(d))
        s == IF d < 0 THEN -1 ELSE 1
    IN  [n |-> s * (n \div g), d |-> s * (d \div g)]

Float(i) == [n |-> i, d |-> 1]

\* x + y, x - y, x * y, x / y for a finite y
FAdd(x, y) == IF IsFinite(x) THEN Norm(x.n * y.d + y.n * x.d, x.d * y.d) ELSE x
FSub(x, y) == IF IsFinite(x) THEN Norm(x.n * y.d - y.n * x.d, x.d * y.d) ELSE x
FMul(x, y) ==
    IF IsFinite(x) THEN Norm(x.n * y.n, x.d * y.d)
    ELSE IF y.n = 0 \/ x = NaN THEN NaN
    ELSE IF y.n > 0 THEN x ELSE [n |-> -x.n, d |-> 0]
FDiv(x, y) ==
    IF ~IsFinite(x) THEN (IF y.n >= 0 \/ x = NaN THEN x ELSE [n |-> -x.n, d |-> 0])
    ELSE IF y.n # 0 THEN Norm(x.n * y.d, x.d * y.n)
    ELSE IF x.n > 0 THEN PosInf
    ELSE IF x.n < 0 THEN NegInf
    ELSE NaN

-----------------------------------------------------------------------------
(* The core: validateExpression and evaluateExpression (webApi.go:85-194) *)

\* fields[i], with Go's index from 0
At(fields, i) == fields[i + 1]

IndexPanic == "runtime error: index out of range"

isValidKeyword(kw) ==
    kw \in {KeywordPlus, KeywordMinus, KeywordMultiplied, KeywordDivided}

parseNum(s) == Float(Atoi(s).num)

\* Tokenize without the call of strings.ToLower
Tokenize_NoLower(expr) == Fields(SubSeq(expr, 1, Len(expr) - 1))

\* expression[:len(expression)-1], lowered and split (webApi.go:106-108, 161-163)
Tokenize(expr) == Fields(ToLower(SubSeq(expr, 1, Len(expr) - 1)))

VOk           == [valid |-> TRUE, reason |-> "", panicked |-> FALSE]
VFail(reason) == [valid |-> FALSE, reason |-> reason, panicked |-> FALSE]
VPanic        == [valid |-> FALSE, reason |-> IndexPanic, panicked |-> TRUE]

\* notAQuestion without the comparison of fields[1]
notAQuestion_SkipsIs(fields) ==
    Len(fields) < 3 \/ At(fields, 0) # KeywordWhat

\* webApi.go:110
notAQuestion(fields) ==
    Len(fields) < 3 \/ At(fields, 0) # KeywordWhat \/ At(fields, 1) # KeywordIs

\* webApi.go:124
missingBy(fields, i) ==
    i + 1 >= Len(fields) \/ At(fields, i + 1) # KeywordBy

\* divisionByZero comparing the text of the operand with "0"
divisionByZero_TextualZero(fields, i) ==
    /\ i + 2 < Len(fields)
    /\ At(fields, i) = KeywordDivided
    /\ At(fields, i + 1) = KeywordBy
    /\ At(fields, i + 2) = <<"0">>

\* divisionByZero without the test that the keyword is "divided"
divisionByZero_AnyKeyword(fields, i) ==
    /\ i + 2 < Len(fields)
    /\ At(fields, i + 1) = KeywordBy
    /\ ~Atoi(At(fields, i + 2)).err
    /\ Atoi(At(fields, i + 2)).num = 0

\* webApi.go:129-134
divisionByZero(fields, i) ==
    /\ i + 2 < Len(fields)
    /\ At(fields, i) = KeywordDivided
    /\ At(fields, i + 1) = KeywordBy
    /\ ~Atoi(At(fields, i + 2)).err
    /\ Atoi(At(fields, i + 2)).num = 0

\* operandMissing without the test: the operand is read wherever the walk stands
operandMissing_Unchecked(fields, i) == FALSE

\* webApi.go:140
operandMissing(fields, i) == i + 1 = Len(fields)

RECURSIVE validateLoop(_, _)

\* validateOperand without the two checks of the operand
validateOperand_Unchecked(fields, i) == validateLoop(fields, i + 2)

\* webApi.go:140-148, and the loop's i += 2
validateOperand(fields, i) ==
    IF operandMissing(fields, i) THEN VFail(InvalidExpressionError)
    ELSE IF i + 1 >= Len(fields) THEN VPanic
    ELSE IF Atoi(At(fields, i + 1)).err THEN VFail(InvalidExpressionError)
    ELSE validateLoop(fields, i + 2)

\* webApi.go:120-149, one iteration at index i and the iterations after it
validateLoop(fields, i) ==
    IF ~(i < Len(fields)) THEN VOk
    ELSE IF ~isValidKeyword(At(fields, i)) THEN VFail(UnsupportedOperationError)
    ELSE IF At(fields, i) = KeywordMultiplied \/ At(fields, i) = KeywordDivided
         THEN IF missingBy(fields, i) THEN VFail(InvalidExpressionError)
              ELSE IF divisionByZero(fields, i) THEN VFail(InvalidExpressionError)
              ELSE validateOperand(fields, i + 1)
         ELSE validateOperand(fields, i)

\* validateExpression with the first operand looked at before the "what is" prefix
validateExpression_OperandFirst(expr) ==
    IF Len(expr) = 0 \/ ~HasSuffixQ(expr) THEN VFail(InvalidExpressionError)
    ELSE LET fields == Tokenize(expr)
         IN  IF Len(fields) >= 3 /\ Atoi(At(fields, 2)).err
             THEN VFail(InvalidExpressionError)
             ELSE IF notAQuestion(fields) THEN VFail(NonMathQuestionError)
             ELSE validateLoop(fields, 3)

\* validateExpression consulting the error store: a text that has a record is rejected
\* as an invalid expression without being looked at
validateExpression_ConsultsStore(expr) ==
    IF \E key \in DOMAIN evaluationErrors : key.Content = expr
    THEN VFail(InvalidExpressionError)
    ELSE IF Len(expr) = 0 \/ ~HasSuffixQ(expr) THEN VFail(InvalidExpressionError)
    ELSE LET fields == Tokenize(expr)
         IN  IF notAQuestion(fields) THEN VFail(NonMathQuestionError)
             ELSE IF Atoi(At(fields, 2)).err THEN VFail(InvalidExpressionError)
             ELSE validateLoop(fields, 3)

\* webApi.go:110-151: the checks made on the tokens
validateFields(fields) ==
    IF notAQuestion(fields) THEN VFail(NonMathQuestionError)
    ELSE IF Atoi(At(fields, 2)).err THEN VFail(InvalidExpressionError)
    ELSE validateLoop(fields, 3)

\* webApi.go:101-152
validateExpression(expr) ==
    IF Len(expr) = 0 \/ ~HasSuffixQ(expr) THEN VFail(InvalidExpressionError)
    ELSE validateFields(Tokenize(expr))

EOk(result, divisors) ==
    [result |-> result, reason |-> "", divisors |-> divisors, panicked |-> FALSE]
\* EFail with a reason of the evaluator's own
EFail_OwnReason(reason) ==
    [result |-> Float(0), reason |-> InvalidExpressionError, divisors |-> <<>>,
     panicked |-> FALSE]

\* webApi.go:158, 170, 189: return 0, reason
EFail(reason) ==
    [result |-> Float(0), reason |-> reason, divisors |-> <<>>, panicked |-> FALSE]
EPanic ==
    [result |-> Float(0), reason |-> IndexPanic, divisors |-> <<>>, panicked |-> TRUE]

RECURSIVE evaluateLoop(_, _, _, _)

\* evaluateLoop with "multiplied" reading its operand at i+1, where "by" stands
evaluateLoop_ByAsOperand(fields, i, result, divisors) ==
    IF ~(i < Len(fields)) THEN EOk(result, divisors)
    ELSE IF i + 1 >= Len(fields) THEN EFail(InvalidExpressionError)
    ELSE IF At(fields, i) = KeywordPlus
         THEN evaluateLoop(fields, i + 2, FAdd(result, parseNum(At(fields, i + 1))), divisors)
    ELSE IF At(fields, i) = KeywordMinus
         THEN evaluateLoop(fields, i + 2, FSub(result, parseNum(At(fields, i + 1))), divisors)
    ELSE IF At(fields, i) = KeywordMultiplied
         THEN evaluateLoop(fields, i + 3, FMul(result, parseNum(At(fields, i + 1))), divisors)
    ELSE IF At(fields, i) = KeywordDivided
         THEN IF i + 2 >= Len(fields) THEN EPanic
              ELSE evaluateLoop(fields, i + 3,
                                FDiv(result, parseNum(At(fields, i + 2))),
                                Append(divisors, parseNum(At(fields, i + 2))))
    ELSE EFail(UnsupportedOperationError)

\* webApi.go:168-191; divisors records the operands used at line 186, in order
evaluateLoop(fields, i, result, divisors) ==
    IF ~(i < Len(fields)) THEN EOk(result, divisors)
    ELSE IF i + 1 >= Len(fields) THEN EFail(InvalidExpressionError)
    ELSE IF At(fields, i) = KeywordPlus
         THEN evaluateLoop(fields, i + 2, FAdd(result, parseNum(At(fields, i + 1))), divisors)
    ELSE IF At(fields, i) = KeywordMinus
         THEN evaluateLoop(fields, i + 2, FSub(result, parseNum(At(fields, i + 1))), divisors)
    ELSE IF At(fields, i) = KeywordMultiplied
         THEN IF i + 2 >= Len(fields) THEN EPanic
              ELSE evaluateLoop(fields, i + 3,
                                FMul(result, parseNum(At(fields, i + 2))), divisors)
    ELSE IF At(fields, i) = KeywordDivided
         THEN IF i + 2 >= Len(fields) THEN EPanic
              ELSE evaluateLoop(fields, i + 3,
                                FDiv(result, parseNum(At(fields, i + 2))),
                                Append(divisors, parseNum(At(fields, i + 2))))
    ELSE EFail(UnsupportedOperationError)

\* webApi.go:165-193: the evaluation of the tokens
evaluateFields(fields) ==
    IF Len(fields) < 3 THEN EPanic
    ELSE evaluateLoop(fields, 3, parseNum(At(fields, 2)), <<>>)

\* webApi.go:157-163: what follows the call of validateExpression, which returned v
evaluateValidated(expr, v) ==
    IF v.panicked THEN EPanic
    ELSE IF ~v.valid THEN EFail(v.reason)
    ELSE IF Len(expr) = 0 THEN EPanic
    ELSE evaluateFields(Tokenize(expr))

\* webApi.go:154-194
evaluateExpression(expr) == evaluateValidated(expr, validateExpression(expr))

-----------------------------------------------------------------------------
(* The walks of the two loops: the values of i with which fields[i] is read *)
(* as a keyword, in order, and the value of i with which the walk ends      *)

Walk(visited, exit, returned) ==
    [visited |-> visited, exit |-> exit, returned |-> returned]

RECURSIVE validateWalk(_, _, _)

\* webApi.go:120-149: for i := 3; i < len(fields); i += 2, with the i++ of line 137
validateWalk(fields, i, visited) ==
    IF ~(i < Len(fields)) THEN Walk(visited, i, FALSE)
    ELSE IF ~isValidKeyword(At(fields, i)) THEN Walk(Append(visited, i), i, TRUE)
    ELSE IF At(fields, i) = KeywordMultiplied \/ At(fields, i) = KeywordDivided
         THEN IF missingBy(fields, i) \/ divisionByZero(fields, i)
              THEN Walk(Append(visited, i), i, TRUE)
              ELSE IF operandMissing(fields, i + 1) \/ Atoi(At(fields, i + 2)).err
                   THEN Walk(Append(visited, i), i + 1, TRUE)
                   ELSE validateWalk(fields, (i + 1) + 2, Append(visited, i))
         ELSE IF operandMissing(fields, i) \/ Atoi(At(fields, i + 1)).err
              THEN Walk(Append(visited, i), i, TRUE)
              ELSE validateWalk(fields, i + 2, Append(visited, i))

RECURSIVE evaluateWalk(_, _, _)

\* evaluateWalk without the i++ of the cases "multiplied" and "divided"
evaluateWalk_NoSkip(fields, i, visited) ==
    IF ~(i < Len(fields)) THEN Walk(visited, i, FALSE)
    ELSE IF i + 1 >= Len(fields) THEN Walk(visited, i, TRUE)
    ELSE IF At(fields, i) \in {KeywordPlus, KeywordMinus, KeywordMultiplied, KeywordDivided}
         THEN evaluateWalk(fields, i + 2, Append(visited, i))
    ELSE Walk(Append(visited, i), i, TRUE)

\* webApi.go:168-191: for i := 3; i < len(fields); i += 2, with the i++ of lines 183, 187
evaluateWalk(fields, i, visited) ==
    IF ~(i < Len(fields)) THEN Walk(visited, i, FALSE)
    ELSE IF i + 1 >= Len(fields) THEN Walk(visited, i, TRUE)
    ELSE IF At(fields, i) \in {KeywordPlus, KeywordMinus}
         THEN evaluateWalk(fields, i + 2, Append(visited, i))
    ELSE IF At(fields, i) \in {KeywordMultiplied, KeywordDivided}
         THEN evaluateWalk(fields, (i + 1) + 2, Append(visited, i))
    ELSE Walk(Append(visited, i), i, TRUE)

-----------------------------------------------------------------------------
(* Inputs: expression texts put together from a head, an optional first     *)
(* operand, up to MaxGroups pieces and a terminator.                        *)

MaxGroups == 2

\* a frame is the text before the first operand and the text after the last piece
Frames ==
    { [head |-> <<"W","h","a","t"," ","i","s">>,             term |-> <<"?">>],
      [head |-> <<" ","W","H","A","T","\t","I","s">>,         term |-> <<" ","?">>],
      [head |-> <<"W","h","a","t"," ","d","a","y">>,         term |-> <<"?">>],
      [head |-> <<"W","h","a","t"," ","i","s">>,             term |-> <<>>] }

\* twenty nines: decimal digits, more than an int holds
TooLarge == [k \in 1..20 |-> "9"]

FirstOperands == { <<"2">>, <<"0">>, <<"-","5">>, TooLarge, <<>> }

Pieces ==
    { << KeywordPlus, <<"3">> >>,
      << KeywordMinus, <<"0">> >>,
      << KeywordMultiplied, KeywordBy, <<"4">> >>,
      << KeywordMultiplied, KeywordBy, <<"0">> >>,
      << KeywordDivided, KeywordBy, <<"2">> >>,
      << KeywordDivided, KeywordBy, <<"0">> >>,
      << KeywordDivided, KeywordBy, <<"+","0","0">> >>,
      << KeywordDivided, KeywordBy >>,
      << KeywordDivided >>,
      << KeywordMultiplied, <<"3">> >>,
      << KeywordPlus >>,
      << <<"f","o","o">>, <<"3">> >> }

RECURSIVE JoinWords(_)
JoinWords(ws) ==
    IF ws = <<>> THEN <<>> ELSE <<" ">> \o Head(ws) \o JoinWords(Tail(ws))

RECURSIVE JoinPieces(_)
JoinPieces(ps) ==
    IF ps = <<>> THEN <<>> ELSE JoinWords(Head(ps)) \o JoinPieces(Tail(ps))

BuildExpression(head, first, pieces, term) ==
    head \o (IF first = <<>> THEN <<>> ELSE <<" ">> \o first) \o JoinPieces(pieces) \o term

PieceSeqs == UNION { [1..n -> Pieces] : n \in 0..MaxGroups }

\* the rune U+017F, LATIN SMALL LETTER LONG S: a lower-case letter whose upper-case
\* form is the ASCII letter S (unicode.ToLower leaves it, unicode.ToUpper gives 'S')
LongS == "U+017F"

\* texts with a letter outside the ASCII range
CaseTexts ==
    { BuildExpression(<<"W","h","a","t"," ","i",LongS>>, <<"2">>, <<>>, <<"?">>),
      BuildExpression(<<"W","h","a","t"," ","i","s">>, <<"2">>,
                      << << <<"p","l","u",LongS>>, <<"3">> >> >>, <<"?">>) }

NoResult == [none |-> TRUE]

-----------------------------------------------------------------------------
(* The core functions applied to one input (SpecCore) *)

NoStore == << >>

CoreInit ==
    /\ \/ expression = <<>>
       \/ expression \in CaseTexts
       \/ \E frame \in Frames, first \in FirstOperands, ps \in PieceSeqs :
             expression = BuildExpression(frame.head, first, ps, frame.term)
    /\ vres = NoResult
    /\ eres = NoResult
    /\ evaluationErrors = NoStore
    /\ response = NoResult
    /\ submitted = NoStore
    /\ nreq = 0
    /\ gor = NoStore
    /\ crashed = FALSE

CallValidate ==
    /\ vres = NoResult
    /\ vres' = validateExpression(expression)
    /\ UNCHANGED <<expression, eres, evaluationErrors, response, submitted, nreq, gor, crashed>>

CallEvaluate ==
    /\ vres # NoResult
    /\ eres = NoResult
    /\ eres' = evaluateExpression(expression)
    /\ UNCHANGED <<expression, vres, evaluationErrors, response, submitted, nreq, gor, crashed>>

CoreNext == CallValidate \/ CallEvaluate

SpecCore == CoreInit /\ [][CoreNext]_vars

-----------------------------------------------------------------------------
(* The handlers and the error store (webApi.go:196-265) *)

ErrorsEndpoint == "/errors"

MaxFractionDigits == 17

RECURSIVE IntDigits(_)
IntDigits(n) ==
    IF n < 10 THEN <<Digits[n + 1]>> ELSE Append(IntDigits(n \div 10), Digits[(n % 10) + 1])

RECURSIVE FractionDigits(_, _, _)
FractionDigits(r, d, left) ==
    IF r = 0 \/ left = 0 THEN <<>>
    ELSE <<Digits[((10 * r) \div d) + 1]>> \o FractionDigits((10 * r) % d, d, left - 1)

\* strconv.FormatFloat(result, 'f', -1, 64): the shortest decimal text, no exponent
\* (a quotient without a finite decimal expansion is cut at MaxFractionDigits)
FormatFloat(x) ==
    IF x = NaN THEN <<"N","a","N">>
    ELSE IF x = PosInf THEN <<"+","I","n","f">>
    ELSE IF x = NegInf THEN <<"-","I","n","f">>
    ELSE LET a == Abs(x.n)
         IN  (IF x.n < 0 THEN <<"-">> ELSE <<>>)
             \o IntDigits(a \div x.d)
             \o (IF a % x.d = 0 THEN <<>>
                 ELSE <<".">> \o FractionDigits(a % x.d, x.d, MaxFractionDigits))

\* json.NewDecoder(request.Body).Decode(&problemExpr): a body without the field
\* "expression" (or one that is not JSON) leaves the zero value
Decode(payload) ==
    [Expression |-> IF payload.hasExpression THEN payload.Expression ELSE <<>>]

\* isZeroRequest with the comparison left out
isZeroRequest_Never(problemExpr) == FALSE

\* reflect.DeepEqual(problemExpr, ProblemExpression{})
isZeroRequest(problemExpr) == problemExpr = [Expression |-> <<>>]

MessageType(content, endpoint) == [Content |-> content, Endpoint |-> endpoint]

\* the map after evaluationErrors[key] = info
MapAssign(store, key, info) ==
    [k \in (DOMAIN store) \cup {key} |-> IF k = key THEN info ELSE store[k]]

EmptyMap == [k \in {} |-> 0]

\* recordError writing the fresh record also when the key exists
recordError_NoIncrement(store, key, message) ==
    MapAssign(store, key, [Frequency |-> 1, ErrorType |-> message])

\* recordError writing into a fresh map, so that the other records are dropped
recordError_Evicting(store, key, message) ==
    LET exists == key \in DOMAIN store
        info   == IF exists
                  THEN [store[key] EXCEPT !.Frequency = @ + 1]
                  ELSE [Frequency |-> 1, ErrorType |-> message]
    IN  MapAssign(EmptyMap, key, info)

\* recordError building the record of a repeat from the count alone, its type left empty
recordError_DropsType(store, key, message) ==
    LET exists == key \in DOMAIN store
        info   == IF exists
                  THEN [Frequency |-> store[key].Frequency + 1, ErrorType |-> ""]
                  ELSE [Frequency |-> 1, ErrorType |-> message]
    IN  MapAssign(store, key, info)

\* webApi.go:210-218 and 240-248, run without interruption
recordError(store, key, message) ==
    LET exists == key \in DOMAIN store
        info   == IF exists
                  THEN [store[key] EXCEPT !.Frequency = @ + 1]
                  ELSE [Frequency |-> 1, ErrorType |-> message]
    IN  MapAssign(store, key, info)

Answer(endpoint, payload, status, body, coreCalled) ==
    [endpoint |-> endpoint, payload |-> payload, status |-> status, body |-> body,
     coreCalled |-> coreCalled]

\* the connection is dropped when the handler panics (net/http recovers)
Aborted(endpoint, payload) == Answer(endpoint, payload, 0, [aborted |-> TRUE], TRUE)

\* webApi.go:196-208, 222: what evaluateHandler writes to the response
evaluateAnswer(payload) ==
    LET problemExpr == Decode(payload)
        r           == evaluateExpression(problemExpr.Expression)
    IN  IF isZeroRequest(problemExpr)
        THEN Answer(EvaluateEndpoint, payload, StatusBadRequest,
                    [Result |-> InvalidJSONError], FALSE)
        ELSE IF r.panicked THEN Aborted(EvaluateEndpoint, payload)
        ELSE IF r.reason # ""
             THEN Answer(EvaluateEndpoint, payload, StatusOK, [Result |-> r.reason], TRUE)
        ELSE Answer(EvaluateEndpoint, payload, StatusOK,
                    [Result |-> FormatFloat(r.result)], TRUE)

\* webApi.go:207: the message that sends evaluateHandler to the error store, "" when none
evaluateMessage(payload) ==
    LET problemExpr == Decode(payload)
        r           == evaluateExpression(problemExpr.Expression)
    IN  IF isZeroRequest(problemExpr) \/ r.panicked THEN "" ELSE r.reason

\* webApi.go:225-236: what validateHandler writes to the response
validateAnswer(payload) ==
    LET problemExpr == Decode(payload)
        v           == validateExpression(problemExpr.Expression)
    IN  IF isZeroRequest(problemExpr)
        THEN Answer(ValidateEndpoint, payload, StatusBadRequest,
                    [Valid |-> FALSE, Reason |-> InvalidJSONError], FALSE)
        ELSE IF v.panicked THEN Aborted(ValidateEndpoint, payload)
        ELSE Answer(ValidateEndpoint, payload, StatusOK,
                    [Valid |-> v.valid, Reason |-> v.reason], TRUE)

\* webApi.go:238: the reason that sends validateHandler to the error store, "" when none
validateMessage(payload) ==
    LET problemExpr == Decode(payload)
        v           == validateExpression(problemExpr.Expression)
    IN  IF isZeroRequest(problemExpr) \/ v.panicked THEN "" ELSE v.reason

\* errorsAnswer reporting the lowered text of each key instead of the text submitted
errorsAnswer_FoldsCase(store) ==
    Answer(ErrorsEndpoint, NoResult, StatusOK,
           { [Expression |-> ToLower(k.Content), Endpoint |-> k.Endpoint,
              Frequency |-> store[k].Frequency, Type |-> store[k].ErrorType] :
             k \in DOMAIN store },
           FALSE)

\* webApi.go:252-264: the records errorsHandler encodes, in no particular order
errorsAnswer(store) ==
    Answer(ErrorsEndpoint, NoResult, StatusOK,
           { [Expression |-> k.Content, Endpoint |-> k.Endpoint,
              Frequency |-> store[k].Frequency, Type |-> store[k].ErrorType] :
             k \in DOMAIN store },
           FALSE)

-----------------------------------------------------------------------------
(* Requests *)

MaxRequests == 3

WhatIs == <<"W","h","a","t"," ","i","s">>

RequestTexts ==
    { BuildExpression(WhatIs, <<"2">>, << <<KeywordPlus, <<"3">> >> >>, <<"?">>),
      BuildExpression(WhatIs, <<"-","5">>,
                      << <<KeywordDivided, KeywordBy, <<"2">> >> >>, <<"?">>),
      BuildExpression(WhatIs, <<"2">>, << <<KeywordPlus>> >>, <<"?">>),
      BuildExpression(<<"w","h","a","t"," ","i","s">>, <<"2">>, << <<KeywordPlus>> >>, <<"?">>),
      BuildExpression(<<"W","h","a","t"," ","d","a","y">>, <<>>, <<>>, <<"?">>),
      BuildExpression(WhatIs, <<"2">>, << << <<"f","o","o">>, <<"3">> >> >>, <<"?">>),
      <<>> }

\* a request body: without the field "expression", or with it
Payloads ==
    {[hasExpression |-> FALSE, Expression |-> <<>>]}
    \cup {[hasExpression |-> TRUE, Expression |-> t] : t \in RequestTexts}

Endpoints == {EvaluateEndpoint, ValidateEndpoint}

AllKeys == {MessageType(t, e) : t \in RequestTexts, e \in Endpoints}

\* history: a request that reaches the core and is rejected by it
Failing(payload) ==
    /\ Decode(payload).Expression # <<>>
    /\ ~validateExpression(Decode(payload).Expression).valid

Count(payload, endpoint) ==
    IF Failing(payload)
    THEN [submitted EXCEPT ![MessageType(Decode(payload).Expression, endpoint)] = @ + 1]
    ELSE submitted

Frequency(store, key) == IF key \in DOMAIN store THEN store[key].Frequency ELSE 0

-----------------------------------------------------------------------------
(* Requests handled one at a time (Spec) *)

Init ==
    /\ expression = <<>>
    /\ vres = NoResult
    /\ eres = NoResult
    /\ evaluationErrors = EmptyMap
    /\ response = NoResult
    /\ submitted = [k \in AllKeys |-> 0]
    /\ nreq = 0
    /\ gor = NoStore
    /\ crashed = FALSE

\* webApi.go:196-223
evaluateHandler(payload) ==
    /\ nreq < MaxRequests
    /\ response' = evaluateAnswer(payload)
    /\ evaluationErrors' =
          IF evaluateMessage(payload) # ""
          THEN recordError(evaluationErrors,
                           MessageType(Decode(payload).Expression, EvaluateEndpoint),
                           evaluateMessage(payload))
          ELSE evaluationErrors
    /\ submitted' = Count(payload, EvaluateEndpoint)
    /\ nreq' = nreq + 1
    /\ UNCHANGED <<expression, vres, eres, gor, crashed>>

\* webApi.go:225-250
validateHandler(payload) ==
    /\ nreq < MaxRequests
    /\ response' = validateAnswer(payload)
    /\ evaluationErrors' =
          IF validateMessage(payload) # ""
          THEN recordError(evaluationErrors,
                           MessageType(Decode(payload).Expression, ValidateEndpoint),
                           validateMessage(payload))
          ELSE evaluationErrors
    /\ submitted' = Count(payload, ValidateEndpoint)
    /\ nreq' = nreq + 1
    /\ UNCHANGED <<expression, vres, eres, gor, crashed>>

\* webApi.go:252-265
errorsHandler ==
    /\ nreq < MaxRequests
    /\ response' = errorsAnswer(evaluationErrors)
    /\ nreq' = nreq + 1
    /\ UNCHANGED <<expression, vres, eres, evaluationErrors, submitted, gor, crashed>>

Next ==
    \/ \E payload \in Payloads : evaluateHandler(payload)
    \/ \E payload \in Payloads : validateHandler(payload)
    \/ errorsHandler

Spec == Init /\ [][Next]_vars

-----------------------------------------------------------------------------
(* Requests served concurrently, one goroutine per connection (SpecConc).   *)
(* net/http runs every handler in a goroutine of its own and the map has no *)
(* lock: the statements of lines 210-218 and 240-248 of different requests  *)
(* interleave.  An access to the map while another goroutine is about to    *)
(* write it is a data race; the runtime may stop the process with "fatal    *)
(* error: concurrent map writes" or let both accesses through.              *)

NumGoroutines == 2

MaxConcurrentRequests == 3

Goroutines == 1..NumGoroutines

ConcurrentTexts ==
    { BuildExpression(WhatIs, <<"2">>, << <<KeywordPlus, <<"3">> >> >>, <<"?">>),
      BuildExpression(WhatIs, <<"2">>, << <<KeywordPlus>> >>, <<"?">>),
      <<>> }

ConcurrentPayloads == {[hasExpression |-> TRUE, Expression |-> t] : t \in ConcurrentTexts}

Idle == [pc |-> "idle"]

ConcInit ==
    /\ expression = <<>>
    /\ vres = NoResult
    /\ eres = NoResult
    /\ evaluationErrors = EmptyMap
    /\ response = NoResult
    /\ submitted = [k \in AllKeys |-> 0]
    /\ nreq = 0
    /\ gor = [g \in Goroutines |-> Idle]
    /\ crashed = FALSE

InHandler(g) == gor[g].pc # "idle"

\* the handler up to its first access of the map (webApi.go:196-209, 225-239)
Serve(g, endpoint, payload) ==
    /\ ~crashed
    /\ gor[g].pc = "idle"
    /\ nreq < MaxConcurrentRequests
    /\ LET message == IF endpoint = EvaluateEndpoint
                      THEN evaluateMessage(payload) ELSE validateMessage(payload)
       IN  /\ response' = IF endpoint = EvaluateEndpoint
                          THEN evaluateAnswer(payload) ELSE validateAnswer(payload)
           /\ gor' = [gor EXCEPT ![g] =
                        IF message = "" THEN Idle
                        ELSE [pc      |-> "exists",
                              key     |-> MessageType(Decode(payload).Expression, endpoint),
                              message |-> message]]
    /\ submitted' = Count(payload, endpoint)
    /\ nreq' = nreq + 1
    /\ UNCHANGED <<expression, vres, eres, evaluationErrors, crashed>>

\* webApi.go:210-213, 240-243: _, exists := evaluationErrors[key]; info := {1, message}
Lookup(g) ==
    /\ ~crashed
    /\ gor[g].pc = "exists"
    /\ gor' = [gor EXCEPT ![g] =
                 [pc   |-> IF gor[g].key \in DOMAIN evaluationErrors THEN "load" ELSE "store",
                  key  |-> gor[g].key,
                  info |-> [Frequency |-> 1, ErrorType |-> gor[g].message]]]
    /\ UNCHANGED <<expression, vres, eres, evaluationErrors, response, submitted, nreq, crashed>>

\* webApi.go:214-215, 244-245: info = evaluationErrors[key]; info.Frequency += 1
Load(g) ==
    /\ ~crashed
    /\ gor[g].pc = "load"
    /\ gor' = [gor EXCEPT ![g] =
                 [pc   |-> "store",
                  key  |-> gor[g].key,
                  info |-> [evaluationErrors[gor[g].key] EXCEPT !.Frequency = @ + 1]]]
    /\ UNCHANGED <<expression, vres, eres, evaluationErrors, response, submitted, nreq, crashed>>

\* webApi.go:218, 248: evaluationErrors[key] = info
Store(g) ==
    /\ ~crashed
    /\ gor[g].pc = "store"
    /\ evaluationErrors' = MapAssign(evaluationErrors, gor[g].key, gor[g].info)
    /\ gor' = [gor EXCEPT ![g] = Idle]
    /\ UNCHANGED <<expression, vres, eres, response, submitted, nreq, crashed>>

\* the runtime detects an access of the map that overlaps another goroutine's write
Fatal(g) ==
    /\ ~crashed
    /\ InHandler(g)
    /\ \E h \in Goroutines \ {g} : gor[h].pc = "store"
    /\ crashed' = TRUE
    /\ UNCHANGED <<expression, vres, eres, evaluationErrors, response, submitted, nreq, gor>>

ConcNext ==
    \/ \E g \in Goroutines, endpoint \in Endpoints, payload \in ConcurrentPayloads :
          Serve(g, endpoint, payload)
    \/ \E g \in Goroutines : Lookup(g)
    \/ \E g \in Goroutines : Load(g)
    \/ \E g \in Goroutines : Store(g)
    \/ \E g \in Goroutines : Fatal(g)

SpecConc == ConcInit /\ [][ConcNext]_vars

-----------------------------------------------------------------------------
(* The grammar and the scan order, stated on token lists *)

Operations == {KeywordPlus, KeywordMinus, KeywordMultiplied, KeywordDivided}

DigitChars == {"0", "1", "2", "3", "4", "5", "6", "7", "8", "9"}

Unsigned(w) == IF w # <<>> /\ w[1] \in {"+", "-"} THEN Tail(w) ELSE w

\* strictly more than 19 significant digits never fit 64 bits
SignificantDigits(u) ==
    Cardinality({k \in 1..Len(u) : \E j \in 1..k : u[j] # "0"})

\* an integer operand: an optional sign and decimal digits, writing a value that an
\* int holds (the literals here with 19 significant digits or fewer are small)
IsIntLiteral(w) ==
    LET u == Unsigned(w)
    IN  /\ u # <<>>
        /\ \A k \in 1..Len(u) : u[k] \in DigitChars
        /\ SignificantDigits(u) <= 19

IsZeroLiteral(w) ==
    LET u == Unsigned(w) IN u # <<>> /\ \A k \in 1..Len(u) : u[k] = "0"

Drop(ts, n) == SubSeq(ts, n + 1, Len(ts))

\* ts starts with one well-formed group; zeroOk says whether "divided by 0" counts as one
GoodGroup(ts, zeroOk) ==
    \/ Len(ts) >= 2 /\ ts[1] \in {KeywordPlus, KeywordMinus} /\ IsIntLiteral(ts[2])
    \/ /\ Len(ts) >= 3
       /\ ts[1] \in {KeywordMultiplied, KeywordDivided}
       /\ ts[2] = KeywordBy
       /\ IsIntLiteral(ts[3])
       /\ (zeroOk \/ ~(ts[1] = KeywordDivided /\ IsZeroLiteral(ts[3])))

GroupLen(ts) == IF ts[1] \in {KeywordPlus, KeywordMinus} THEN 2 ELSE 3

RECURSIVE MatchGroups(_, _)
MatchGroups(ts, zeroOk) ==
    ts = <<>> \/ (GoodGroup(ts, zeroOk) /\ MatchGroups(Drop(ts, GroupLen(ts)), zeroOk))

StartsWhatIs(ts) == Len(ts) >= 3 /\ ts[1] = KeywordWhat /\ ts[2] = KeywordIs

InGrammar(expr) ==
    /\ HasSuffixQ(expr)
    /\ LET ts == Tokenize(expr)
       IN  StartsWhatIs(ts) /\ IsIntLiteral(ts[3]) /\ MatchGroups(Drop(ts, 3), FALSE)

\* the reason of the first group that fails, "" when none does
RECURSIVE FirstGroupFailure(_)
FirstGroupFailure(ts) ==
    IF ts = <<>> THEN ""
    ELSE IF GoodGroup(ts, FALSE) THEN FirstGroupFailure(Drop(ts, GroupLen(ts)))
    ELSE IF ts[1] \notin Operations THEN UnsupportedOperationError
    ELSE InvalidExpressionError

ScanOrderReason(expr) ==
    IF expr = <<>> \/ ~HasSuffixQ(expr) THEN InvalidExpressionError
    ELSE LET ts == Tokenize(expr)
         IN  IF ~StartsWhatIs(ts) THEN NonMathQuestionError
             ELSE IF ~IsIntLiteral(ts[3]) THEN InvalidExpressionError
             ELSE FirstGroupFailure(Drop(ts, 3))

\* what, is, an integer, well-formed groups, and then a recognised keyword at the end
DanglingKeyword(expr) ==
    /\ HasSuffixQ(expr)
    /\ LET ts == Tokenize(expr)
       IN  /\ Len(ts) >= 4
           /\ StartsWhatIs(ts)
           /\ IsIntLiteral(ts[3])
           /\ MatchGroups(SubSeq(ts, 4, Len(ts) - 1), FALSE)
           /\ ts[Len(ts)] \in Operations

Validated == vres # NoResult
Evaluated == eres # NoResult

-----------------------------------------------------------------------------
(* C1: validateExpression returns valid = true exactly when                 *)
(* evaluateExpression returns an empty reason; after a successful           *)
(* validation the evaluator takes none of its own failure returns and does  *)
(* not abort.                                                               *)
C1_ValidIffEvaluates ==
    (Validated /\ Evaluated) =>
        /\ vres.valid <=> eres.reason = ""
        /\ vres.valid => ~eres.panicked

C1_Witness ==
    /\ Validated /\ Evaluated
    /\ vres.valid /\ eres.reason = ""
    /\ LET ts == Tokenize(expression)
       IN  /\ \E k \in 1..Len(ts) : ts[k] = KeywordMultiplied
           /\ \E k \in 1..Len(ts) : ts[k] = KeywordMinus

(* C2: when validateExpression returns (false, r), evaluateExpression       *)
(* returns the number 0 and the same reason r.                              *)
C2_SameReason ==
    (Validated /\ Evaluated /\ ~vres.valid) =>
        eres.result = Float(0) /\ eres.reason = vres.reason

C2_Witness ==
    /\ Validated /\ Evaluated
    /\ ~vres.valid /\ vres.reason = UnsupportedOperationError
    /\ eres.reason = UnsupportedOperationError

(* C3: validateExpression returns (true, "") exactly for the texts that end *)
(* with '?' and whose tokens are what, is, an integer, then groups          *)
(* (plus|minus) integer or (multiplied|divided) by integer, with no zero    *)
(* after "divided by", up to the end; every other text gets valid = false   *)
(* and a non-empty reason.                                                  *)
C3_AcceptsExactlyTheGrammar ==
    Validated =>
        /\ vres = VOk <=> InGrammar(expression)
        /\ vres # VOk => (~vres.valid /\ vres.reason # "" /\ ~vres.panicked)

C3_Witness ==
    /\ Validated /\ vres = VOk
    /\ LET ts == Tokenize(expression)
       IN  Len(ts) >= 8 /\ \E k \in 1..Len(ts) : ts[k] = KeywordDivided

(* C4: the reason returned by validateExpression is that of the first       *)
(* failing check in scan order: terminator, then the "what is" prefix, then *)
(* the first operand, then the groups from left to right, an unrecognised   *)
(* keyword giving UnsupportedOperation and every other failure of a group   *)
(* InvalidExpression; a recognised keyword dangling at the end gives        *)
(* InvalidExpression.                                                       *)
C4_FirstFailingCheck ==
    Validated =>
        /\ vres.reason = ScanOrderReason(expression)
        /\ DanglingKeyword(expression) => vres.reason = InvalidExpressionError

C4_Witness ==
    /\ Validated
    /\ vres.reason = InvalidExpressionError
    /\ DanglingKeyword(expression)
    /\ Len(Tokenize(expression)) >= 6
(* C5 (as stated): the reasons are applied in the fixed priority order      *)
(* InvalidExpression, NonMathQuestion, UnsupportedOperation: an expression  *)
(* that matches the triggers of more than one reason gets the reason that   *)
(* comes first in that order.  The triggers are those of the taxonomy, read *)
(* on the tokens of the text.                                               *)
TextTokens(expr) ==
    Fields(ToLower(IF HasSuffixQ(expr) THEN SubSeq(expr, 1, Len(expr) - 1) ELSE expr))

OperandPosition(ts, k) ==
    \/ k = 3
    \/ k >= 2 /\ ts[k - 1] \in {KeywordPlus, KeywordMinus}
    \/ k >= 3 /\ ts[k - 1] = KeywordBy /\ ts[k - 2] \in {KeywordMultiplied, KeywordDivided}

KeywordPosition(ts, k) == k >= 4 /\ OperandPosition(ts, k - 1)

\* the triggers of the taxonomy on a text with tokens ts
TriggersInvalidExpression(expr, ts) ==
    LET n == Len(ts)
    IN  \/ ~HasSuffixQ(expr)
        \/ \E k \in 1..n : OperandPosition(ts, k) /\ ~IsIntLiteral(ts[k])
        \/ n >= 1 /\ ts[n] \in Operations
        \/ n >= 2 /\ ts[n] = KeywordBy /\ ts[n - 1] \in {KeywordMultiplied, KeywordDivided}
        \/ \E k \in 1..n : /\ ts[k] \in {KeywordMultiplied, KeywordDivided}
                           /\ (k = n \/ ts[k + 1] # KeywordBy)
        \/ \E k \in 1..(n - 2) : /\ ts[k] = KeywordDivided
                                 /\ ts[k + 1] = KeywordBy
                                 /\ IsZeroLiteral(ts[k + 2])

TriggersNonMathQuestion(ts) == ~StartsWhatIs(ts)

TriggersUnsupportedOperation(ts) ==
    \E k \in 1..Len(ts) : KeywordPosition(ts, k) /\ ts[k] \notin Operations

Triggered(expr) ==
    LET ts == TextTokens(expr)
    IN  (IF TriggersInvalidExpression(expr, ts) THEN {InvalidExpressionError} ELSE {})
        \cup (IF TriggersNonMathQuestion(ts) THEN {NonMathQuestionError} ELSE {})
        \cup (IF TriggersUnsupportedOperation(ts) THEN {UnsupportedOperationError} ELSE {})

\* what, is, an integer, and the first group that fails starts with an unrecognised token
UnsupportedGroupFirst(expr) ==
    LET ts == TextTokens(expr)
    IN  /\ StartsWhatIs(ts)
        /\ IsIntLiteral(ts[3])
        /\ FirstGroupFailure(Drop(ts, 3)) = UnsupportedOperationError

FirstInPriority(reasons) ==
    IF InvalidExpressionError \in reasons THEN InvalidExpressionError
    ELSE IF NonMathQuestionError \in reasons THEN NonMathQuestionError
    ELSE UnsupportedOperationError

\* C5 as stated: among the reasons whose triggers match, the first in the order
\* InvalidExpression, NonMathQuestion, UnsupportedOperation is the one reported
C5_FixedPriority ==
    Validated =>
        LET reasons == Triggered(expression)
        IN  Cardinality(reasons) >= 2 => vres.reason = FirstInPriority(reasons)

(* C5 (amended): there is no fixed priority among the reasons; the first    *)
(* match in scan order wins.  For an expression that matches the triggers   *)
(* of more than one reason: a missing '?' gives InvalidExpression;          *)
(* otherwise a missing "what is" prefix gives NonMathQuestion, also when    *)
(* InvalidExpression triggers match; otherwise a non-integer first operand  *)
(* gives InvalidExpression; otherwise the first group that fails decides,   *)
(* UnsupportedOperation when its keyword is unrecognised, also when         *)
(* InvalidExpression triggers match further on.                             *)
C5_ScanOrderAmongTriggers ==
    Validated =>
        LET reasons == Triggered(expression)
        IN  Cardinality(reasons) >= 2 =>
              /\ vres.reason = ScanOrderReason(expression)
              /\ ~HasSuffixQ(expression) => vres.reason = InvalidExpressionError
              /\ (HasSuffixQ(expression) /\ NonMathQuestionError \in reasons)
                    => vres.reason = NonMathQuestionError
              /\ (HasSuffixQ(expression) /\ UnsupportedGroupFirst(expression))
                    => vres.reason = UnsupportedOperationError

C5_Witness ==
    /\ Validated
    /\ Triggered(expression) = {InvalidExpressionError, UnsupportedOperationError}
    /\ vres.reason = UnsupportedOperationError

(* C6: an expression with "divided" at a group position followed by "by"    *)
(* and an integer literal of value zero is rejected with InvalidExpression  *)
(* when no earlier check failed; in every expression that evaluates, each   *)
(* operand used as a divisor is non-zero; a zero operand elsewhere (first   *)
(* operand, after plus, minus or "multiplied by") causes no rejection.      *)
ZeroDivisorGroup(expr) ==
    /\ HasSuffixQ(expr)
    /\ LET ts == Tokenize(expr)
       IN  /\ StartsWhatIs(ts)
           /\ IsIntLiteral(ts[3])
           /\ \E k \in 4..(Len(ts) - 2) :
                 /\ MatchGroups(SubSeq(ts, 4, k - 1), FALSE)
                 /\ ts[k] = KeywordDivided
                 /\ ts[k + 1] = KeywordBy
                 /\ IsZeroLiteral(ts[k + 2])

\* the grammar with any integer after "divided by", and no "divided by <zero>" in the text
WellFormedButForZeros(expr) ==
    /\ HasSuffixQ(expr)
    /\ LET ts == Tokenize(expr)
       IN  /\ StartsWhatIs(ts)
           /\ IsIntLiteral(ts[3])
           /\ MatchGroups(Drop(ts, 3), TRUE)
           /\ ~\E k \in 1..(Len(ts) - 2) : /\ ts[k] = KeywordDivided
                                           /\ ts[k + 1] = KeywordBy
                                           /\ IsZeroLiteral(ts[k + 2])

HasZeroOperand(expr) ==
    LET ts == Tokenize(expr) IN \E k \in 3..Len(ts) : IsZeroLiteral(ts[k])

\* C6: zero after "divided by" is rejected, no divisor used is zero, zero elsewhere passes
C6_NoDivisionByZero ==
    /\ (Validated /\ ZeroDivisorGroup(expression)) => vres = VFail(InvalidExpressionError)
    /\ (Evaluated /\ eres.reason = "") =>
          /\ IsFinite(eres.result)
          /\ \A k \in 1..Len(eres.divisors) : eres.divisors[k].n # 0
    /\ (Validated /\ WellFormedButForZeros(expression)) => vres = VOk

C6_Witness ==
    /\ Validated /\ Evaluated
    /\ vres = VOk /\ eres.reason = ""
    /\ Len(eres.divisors) >= 1
    /\ HasZeroOperand(expression)

(* C7: for a valid expression evaluateExpression returns the left fold of   *)
(* its groups over an accumulator that starts at the first operand, in the  *)
(* order of the groups and with no operator precedence ("What is 2 plus 3   *)
(* multiplied by 4?" gives 20); with no groups it returns the operand.      *)
LiteralValue(w) == Float(Atoi(w).num)

RECURSIVE FoldGroups(_, _)
FoldGroups(acc, ts) ==
    IF ts = <<>> THEN acc
    ELSE IF ts[1] = KeywordPlus  THEN FoldGroups(FAdd(acc, LiteralValue(ts[2])), Drop(ts, 2))
    ELSE IF ts[1] = KeywordMinus THEN FoldGroups(FSub(acc, LiteralValue(ts[2])), Drop(ts, 2))
    ELSE IF ts[1] = KeywordMultiplied
         THEN FoldGroups(FMul(acc, LiteralValue(ts[3])), Drop(ts, 3))
         ELSE FoldGroups(FDiv(acc, LiteralValue(ts[3])), Drop(ts, 3))

PrecedenceExample ==
    BuildExpression(<<"W","h","a","t"," ","i","s">>, <<"2">>,
                    << <<KeywordPlus, <<"3">> >>, <<KeywordMultiplied, KeywordBy, <<"4">> >> >>,
                    <<"?">>)

\* C7: the result is the left fold of the groups, without operator precedence
C7_LeftFold ==
    (Evaluated /\ eres.reason = "") =>
        LET ts == Tokenize(expression)
        IN  /\ eres.result = FoldGroups(LiteralValue(ts[3]), Drop(ts, 3))
            /\ Len(ts) = 3 => eres.result = LiteralValue(ts[3])
            /\ expression = PrecedenceExample => eres.result = Float(20)

C7_Witness ==
    /\ Evaluated
    /\ expression = PrecedenceExample
    /\ eres = EOk(Float(20), <<>>)
(* C8: with requests handled one at a time, the frequency stored for each  *)
(* (expression, endpoint) pair equals the number of failing requests made   *)
(* so far with that expression on that endpoint (0 when there is no         *)
(* record); the two endpoints are counted in separate records.              *)
C8_FrequencyCountsFailures ==
    \A key \in AllKeys : Frequency(evaluationErrors, key) = submitted[key]

C8_Witness ==
    \E t \in RequestTexts :
        /\ Frequency(evaluationErrors, MessageType(t, EvaluateEndpoint)) = 2
        /\ Frequency(evaluationErrors, MessageType(t, ValidateEndpoint)) = 1
        /\ submitted[MessageType(t, EvaluateEndpoint)] = 2

(* C9 (as stated): when failing requests for the same pair are handled      *)
(* concurrently, no increment is lost: once every handler has returned, the *)
(* frequency of each pair equals the number of failing requests made for    *)
(* it, and the process is still running.                                    *)
C9_NoLostIncrement ==
    (\A g \in Goroutines : gor[g].pc = "idle") =>
        /\ ~crashed
        /\ \A key \in AllKeys : Frequency(evaluationErrors, key) = submitted[key]

(* C10: a request without the field "expression", or with an empty          *)
(* expression, is answered 'Invalid JSON data' with status 400 without a    *)
(* call of the core and with the error store left as it was; no record has  *)
(* an empty expression as key, and every stored type is one of the three    *)
(* reasons of the core.                                                     *)
StoredRecordsWellFormed ==
    \A key \in DOMAIN evaluationErrors :
        /\ key.Content # <<>>
        /\ evaluationErrors[key].ErrorType \in
              {InvalidExpressionError, NonMathQuestionError, UnsupportedOperationError}

MalformedAnswer(endpoint) ==
    IF endpoint = EvaluateEndpoint
    THEN [Result |-> InvalidJSONError]
    ELSE [Valid |-> FALSE, Reason |-> InvalidJSONError]

MalformedRequestStep ==
    /\ nreq' = nreq + 1
    /\ response'.endpoint \in Endpoints
    /\ (~response'.payload.hasExpression \/ response'.payload.Expression = <<>>)

\* C10: a request without a non-empty expression is answered 400 'Invalid JSON data',
\* the core is not called, the store is not touched; stored records are well formed
C10_MalformedRejected ==
    /\ []StoredRecordsWellFormed
    /\ [][MalformedRequestStep =>
            /\ response'.status = StatusBadRequest
            /\ response'.body = MalformedAnswer(response'.endpoint)
            /\ ~response'.coreCalled
            /\ evaluationErrors' = evaluationErrors]_vars

C10_Witness ==
    /\ response # NoResult
    /\ response.endpoint = ValidateEndpoint
    /\ response.payload = [hasExpression |-> TRUE, Expression |-> <<>>]
    /\ response.status = StatusBadRequest
    /\ DOMAIN evaluationErrors # {}

(* C11: error records are never evicted and never decrease.  With requests  *)
(* handled one at a time, a record that exists exists in every later state; *)
(* a record is created with frequency 1, by the first failing request of    *)
(* its (expression, endpoint) pair; on every step the frequency of a pair   *)
(* grows by exactly 1 when the step is a failing request of that pair and   *)
(* by 0 on every other request.                                             *)
FailureOf(key) ==
    /\ nreq' = nreq + 1
    /\ response'.endpoint = key.Endpoint
    /\ response'.payload.hasExpression
    /\ response'.payload.Expression = key.Content
    /\ key.Content # <<>>
    /\ ~validateExpression(key.Content).valid

RecordLifecycleStep(key) ==
    /\ key \in DOMAIN evaluationErrors => key \in DOMAIN evaluationErrors'
    /\ (key \notin DOMAIN evaluationErrors /\ key \in DOMAIN evaluationErrors')
          => (FailureOf(key) /\ evaluationErrors'[key].Frequency = 1)
    /\ Frequency(evaluationErrors', key) >= Frequency(evaluationErrors, key)
    /\ Frequency(evaluationErrors', key) =
          Frequency(evaluationErrors, key) + (IF FailureOf(key) THEN 1 ELSE 0)

C11_NeverEvictedNeverDecreasing ==
    /\ [](DOMAIN evaluationErrors \subseteq AllKeys)
    /\ [][\A key \in AllKeys : RecordLifecycleStep(key)]_vars

C11_Witness ==
    \E k1 \in AllKeys, k2 \in AllKeys :
        /\ k1 # k2
        /\ Frequency(evaluationErrors, k1) = 2
        /\ Frequency(evaluationErrors, k2) = 1
        /\ response # NoResult
        /\ response.endpoint = k2.Endpoint
        /\ response.payload.Expression = k2.Content

(* C12: validateExpression and evaluateExpression are pure.  Across every   *)
(* step of the service, whatever it does to the error store, the two        *)
(* functions return for every expression what they returned before the      *)
(* step, and so what they return on an empty store with no request handled; *)
(* a request repeated right after itself gets the same answer; and a step   *)
(* changes the store only by the handler's own write for a failing request, *)
(* never through a call of the core that succeeds.                          *)
CoreResults ==
    [t \in RequestTexts |-> <<validateExpression(t), evaluateExpression(t)>>]

SameRequestAgain ==
    /\ response # NoResult
    /\ nreq' = nreq + 1
    /\ response'.endpoint = response.endpoint
    /\ response'.payload = response.payload

CoreSucceeds ==
    /\ nreq' = nreq + 1
    /\ response'.coreCalled
    /\ validateExpression(response'.payload.Expression).valid

IsUnsignedLiteral(w) == w # <<>> /\ \A k \in 1..Len(w) : w[k] \in DigitChars

IsSignPrefixed(w) == w # <<>> /\ w[1] \in {"+", "-"}

\* what, is, and a sign-prefixed first operand
SignedFirstOperand(expr) ==
    /\ HasSuffixQ(expr)
    /\ LET ts == Tokenize(expr) IN StartsWhatIs(ts) /\ IsSignPrefixed(ts[3])

C13_OperandsNonNegative ==
    Validated =>
        LET ts == TextTokens(expression)
        IN  /\ vres.valid =>
                  \A k \in 3..Len(ts) : OperandPosition(ts, k) => IsUnsignedLiteral(ts[k])
            /\ SignedFirstOperand(expression) => vres = VFail(InvalidExpressionError)

(* C14: the errors query returns exactly one record for each (text as       *)
(* submitted, endpoint) pair that has failed at least once and none for any *)
(* other pair, each with the pair's current frequency and type; texts that  *)
(* differ only in letter case are separate records with separate counters;  *)
(* the errors query, like a request that succeeds, leaves the store as it   *)
(* was.                                                                     *)
FailedPairs == {key \in AllKeys : submitted[key] > 0}

ExpectedRecords ==
    { [Expression |-> key.Content, Endpoint |-> key.Endpoint,
       Frequency  |-> submitted[key],
       Type       |-> evaluationErrors[key].ErrorType] : key \in FailedPairs }

ErrorsAnswered == response # NoResult /\ response.endpoint = ErrorsEndpoint

ErrorsQueryStep == nreq' = nreq + 1 /\ response'.endpoint = ErrorsEndpoint

C14_ErrorsQueryExact ==
    /\ [](/\ DOMAIN evaluationErrors = FailedPairs
          /\ ErrorsAnswered =>
                /\ response.body = ExpectedRecords
                /\ Cardinality(response.body) = Cardinality(FailedPairs))
    /\ [][(ErrorsQueryStep \/ CoreSucceeds) => evaluationErrors' = evaluationErrors]_vars

C14_Witness ==
    /\ ErrorsAnswered
    /\ \E r1 \in response.body, r2 \in response.body :
          /\ r1.Expression # r2.Expression
          /\ ToLower(r1.Expression) = ToLower(r2.Expression)
          /\ r1.Endpoint = r2.Endpoint
          /\ r1.Frequency = 1 /\ r2.Frequency = 1
    /\ Cardinality(response.body) = 2

(* C15: the core never aborts.  For every input, also one that ends right   *)
(* after a keyword, right after "multiplied" or "divided", or right after   *)
(* "by", no read of fields[..] by validateExpression or evaluateExpression  *)
(* is out of range, and both return a pair: (valid, reason) with a reason   *)
(* of the taxonomy exactly when valid is false, (result, reason) with       *)
(* result 0 whenever the reason is not empty.                               *)
CoreReasons == {InvalidExpressionError, NonMathQuestionError, UnsupportedOperationError}

LastTokens(expr, n) ==
    LET ts == TextTokens(expr) IN SubSeq(ts, Len(ts) - n + 1, Len(ts))

EndsAfterKeyword(expr) ==
    Len(TextTokens(expr)) >= 4 /\ LastTokens(expr, 1)[1] \in {KeywordPlus, KeywordMinus}

EndsAfterDivided(expr) ==
    Len(TextTokens(expr)) >= 4
    /\ LastTokens(expr, 1)[1] \in {KeywordMultiplied, KeywordDivided}

EndsAfterBy(expr) ==
    Len(TextTokens(expr)) >= 5
    /\ LastTokens(expr, 2)[2] = KeywordBy
    /\ LastTokens(expr, 2)[1] \in {KeywordMultiplied, KeywordDivided}

C15_CoreNeverAborts ==
    /\ Validated =>
          /\ ~vres.panicked
          /\ vres.reason \in CoreReasons \cup {""}
          /\ vres.valid <=> vres.reason = ""
    /\ Evaluated =>
          /\ ~eres.panicked
          /\ eres.reason \in CoreReasons \cup {""}
          /\ eres.reason # "" => eres.result = Float(0)

C15_Witness ==
    /\ Validated /\ Evaluated
    /\ HasSuffixQ(expression)
    /\ StartsWhatIs(TextTokens(expression))
    /\ EndsAfterBy(expression)
    /\ Len(TextTokens(expression)) >= 7
    /\ vres = VFail(InvalidExpressionError)
    /\ eres = EFail(InvalidExpressionError)

\* the other two endings of the claim, reached as well
C15_WitnessKeyword ==
    /\ Evaluated /\ HasSuffixQ(expression) /\ StartsWhatIs(TextTokens(expression))
    /\ EndsAfterKeyword(expression) /\ eres = EFail(InvalidExpressionError)

C15_WitnessDivided ==
    /\ Evaluated /\ HasSuffixQ(expression) /\ StartsWhatIs(TextTokens(expression))
    /\ EndsAfterDivided(expression) /\ eres = EFail(InvalidExpressionError)

(* C16: the type stored in an error record equals the reason returned to    *)
(* the most recent failing request of its (expression, endpoint) pair: a    *)
(* failing request leaves in the record the reason it was answered with,    *)
(* on a repeat too, where only the frequency is written anew, and no other  *)
(* request changes the type of the record.                                  *)
ReturnedReason(answer) ==
    IF answer.endpoint = EvaluateEndpoint THEN answer.body.Result ELSE answer.body.Reason

StoredTypeStep(key) ==
    /\ FailureOf(key) =>
          /\ key \in DOMAIN evaluationErrors'
          /\ evaluationErrors'[key].ErrorType = ReturnedReason(response')
    /\ (~FailureOf(key) /\ key \in DOMAIN evaluationErrors) =>
          /\ key \in DOMAIN evaluationErrors'
          /\ evaluationErrors'[key].ErrorType = evaluationErrors[key].ErrorType

C16_TypeIsLatestReason ==
    [][\A key \in AllKeys : StoredTypeStep(key)]_vars

C16_Witness ==
    /\ response # NoResult
    /\ response.endpoint = ValidateEndpoint
    /\ response.coreCalled
    /\ LET key == MessageType(response.payload.Expression, ValidateEndpoint)
       IN  /\ key \in DOMAIN evaluationErrors
           /\ evaluationErrors[key].Frequency = 2
           /\ evaluationErrors[key].ErrorType = NonMathQuestionError
           /\ response.body.Reason = NonMathQuestionError

(* C17 (as stated): validation and evaluation are case-insensitive: for     *)
(* every expression, changing the letter case of any of its characters      *)
(* changes neither the validity flag, nor the reason, nor the numeric       *)
(* result.  The variants taken are the text in upper case, the text in      *)
(* lower case, and the text with its letters alternately in upper and lower *)
(* case.                                                                    *)
UpperOf ==
    [c \in {LowerLetters[k] : k \in 1..26} |->
        UpperLetters[CHOOSE k \in 1..26 : LowerLetters[k] = c]]

\* the upper-case form of an ASCII letter; other characters are left
AsciiUpperChar(c) == IF c \in DOMAIN UpperOf THEN UpperOf[c] ELSE c

\* the upper-case form of a letter (unicode.ToUpper)
UpperChar(c) == IF c = LongS THEN "S" ELSE AsciiUpperChar(c)

UpperCased(s) == [k \in 1..Len(s) |-> UpperChar(s[k])]

LowerCased(s) == [k \in 1..Len(s) |-> ToLowerChar(s[k])]

Alternated(s) ==
    [k \in 1..Len(s) |-> IF k % 2 = 1 THEN UpperChar(s[k]) ELSE ToLowerChar(s[k])]

AsciiUpperCased(s) == [k \in 1..Len(s) |-> AsciiUpperChar(s[k])]

AsciiAlternated(s) ==
    [k \in 1..Len(s) |-> IF k % 2 = 1 THEN AsciiUpperChar(s[k]) ELSE ToLowerChar(s[k])]

\* v is what validateExpression returns for the variant; evaluateExpression returns
\* for it what follows from v
SameResultsGiven(variant, v) ==
    /\ v = vres
    /\ evaluateValidated(variant, v) = eres

SameResults(variant) == SameResultsGiven(variant, validateExpression(variant))

C17_CaseInsensitive ==
    (Validated /\ Evaluated) =>
        /\ SameResults(UpperCased(expression))
        /\ SameResults(LowerCased(expression))
        /\ SameResults(Alternated(expression))

(* C17 (amended): validation and evaluation are insensitive to the case of  *)
(* ASCII letters: changing the case of any of the letters A-Z, a-z of an    *)
(* expression changes neither the validity flag, nor the reason, nor the    *)
(* numeric result.  (A letter outside ASCII whose other case is an ASCII    *)
(* letter, such as the long s, is not folded with it.)                      *)
C17_AsciiCaseInsensitive ==
    (Validated /\ Evaluated) =>
        /\ SameResults(AsciiUpperCased(expression))
        /\ SameResults(LowerCased(expression))
        /\ SameResults(AsciiAlternated(expression))

C17_Witness ==
    /\ Validated /\ Evaluated
    /\ vres = VOk /\ eres.reason = ""
    /\ \E k \in 1..Len(expression) : expression[k] \in DOMAIN LowerOf
    /\ \E k \in 1..Len(expression) : expression[k] \in DOMAIN UpperOf
    /\ AsciiUpperCased(expression) # expression
    /\ AsciiAlternated(expression) # expression
    /\ Len(eres.divisors) >= 1
    /\ validateExpression(AsciiAlternated(expression)) = VOk

(* C18: the pairing walk is a single terminating pass.  Both walks start at *)
(* token index 3; from one keyword read to the next the index grows by      *)
(* exactly 2 after plus or minus and by exactly 3 after multiplied or       *)
(* divided, so it strictly increases and there is at most one step per      *)
(* token; on a valid expression the evaluator reads its keywords at exactly *)
(* the indices at which the validator read them and both walks end with the *)
(* index equal to the number of tokens.                                     *)
ReachesTheWalk(expr, fields) ==
    /\ HasSuffixQ(expr)
    /\ ~notAQuestion(fields)
    /\ ~Atoi(At(fields, 2)).err

AdvanceAfter(kw) == IF kw \in {KeywordMultiplied, KeywordDivided} THEN 3 ELSE 2

SinglePass(fields, walk) ==
    LET n == Len(walk.visited)
    IN  /\ n >= 1 => walk.visited[1] = 3
        /\ \A k \in 1..(n - 1) :
              /\ walk.visited[k + 1] = walk.visited[k] + AdvanceAfter(At(fields, walk.visited[k]))
              /\ walk.visited[k + 1] > walk.visited[k]
        /\ \A k \in 1..n : walk.visited[k] < Len(fields)
        /\ n <= Len(fields) - 3
        /\ ~walk.returned =>
              walk.exit = IF n = 0 THEN 3
                          ELSE walk.visited[n] + AdvanceAfter(At(fields, walk.visited[n]))

\* v is the validator's walk over fields and e the evaluator's
WalksAgree(fields, v, e) ==
    /\ SinglePass(fields, v)
    /\ vres.valid <=> ~v.returned
    /\ vres.valid =>
          /\ SinglePass(fields, e)
          /\ ~e.returned /\ eres.reason = ""
          /\ e.visited = v.visited
          /\ v.exit = Len(fields) /\ e.exit = Len(fields)

WalksOf(expr, fields) ==
    ReachesTheWalk(expr, fields) =>
        WalksAgree(fields, validateWalk(fields, 3, <<>>), evaluateWalk(fields, 3, <<>>))

C18_SingleTerminatingPass ==
    (Validated /\ Evaluated) => WalksOf(expression, Tokenize(expression))

C18_Witness ==
    /\ Validated /\ Evaluated /\ vres.valid
    /\ LET fields == Tokenize(expression)
       IN  /\ Len(fields) = 8
           /\ validateWalk(fields, 3, <<>>) = Walk(<<3, 5>>, 8, FALSE)
           /\ evaluateWalk(fields, 3, <<>>) = Walk(<<3, 5>>, 8, FALSE)

====
